---- MODULE Spec2Model ----
(***************************************************************************)
(* A model of SELECTED/gen_fp.py: the command-line converter that reads a  *)
(* SMILES file, computes one Morgan fingerprint per accepted record and    *)
(* writes the three datasets fp_list, smiles_list and name_list to an HDF5 *)
(* container.                                                              *)
(*                                                                         *)
(* A string is a sequence of characters; a character is a one-character    *)
(* TLA+ string, except that the non-ASCII character e-acute is written     *)
(* "U+00E9".  A line of the input file is modelled without its newline     *)
(* (str.strip() removes it together with the other whitespace).            *)
(***************************************************************************)
EXTENDS Integers, Sequences, FiniteSets, TLC

\* ------------------------------------------------------------------ bounds

\* The input file has at most one header line and MaxDataLines further lines.
MaxDataLines == 2
\* The program is invoked at most MaxRuns times in a row on the same paths.
MaxRuns == 2

\* ------------------------------------------------------- program constants

\* rdmd.GetMorganFingerprintAsBitVect(mol, 3, 1024): radius and bit length.
Radius == 3
NBits == 1024
\* islice(ifs, 1, None): the number of leading lines the iterator drops.
IsliceStart == 1
\* len(sys.argv) != 3: the argument vector of a well-formed invocation.
ArgvLen == 3
\* len(toks) >= 2: the fewest tokens of a candidate record.
MinToks == 2
\* np.zeros((1,)): the length of the array handed to ConvertToNumpyArray.
ZerosLen == 1

\* ------------------------------------------------------------- characters

Whitespace == {" ", "\t"}
NonAscii == {"U+00E9"}

\* ------------------------------------------------- str.strip / str.split

RECURSIVE lstrip(_)
lstrip(s) ==
    IF s = <<>> THEN s
    ELSE IF Head(s) \in Whitespace THEN lstrip(Tail(s)) ELSE s

RECURSIVE rstrip(_)
rstrip(s) ==
    IF s = <<>> THEN s
    ELSE IF s[Len(s)] \in Whitespace THEN rstrip(SubSeq(s, 1, Len(s) - 1)) ELSE s

\* line.strip(): leading and trailing whitespace of every kind is removed.
strip(s) == rstrip(lstrip(s))

RECURSIVE SplitFrom(_, _, _)
SplitFrom(s, seps, cur) ==
    IF s = <<>> THEN <<cur>>
    ELSE IF Head(s) \in seps
         THEN <<cur>> \o SplitFrom(Tail(s), seps, <<>>)
         ELSE SplitFrom(Tail(s), seps, Append(cur, Head(s)))

\* s.split(" "): every single space is a boundary, so two spaces in a row
\* enclose an empty token, and a tab is an ordinary character.
split(s, sep) == SplitFrom(s, {sep}, <<>>)

\* s.encode("ascii", "ignore"): the characters outside ASCII are dropped.
encode(s) == SelectSeq(s, LAMBDA c : c \notin NonAscii)

\* ------------------------------------------------------------ the toolkit

\* Chem.MolFromSmiles(smiles): None (valid = FALSE) for a string that is no
\* SMILES, a molecule otherwise.  The model's parser knows the carbon chains
\* "C", "CC", ...: any other character (an unknown atom symbol, a tab, a
\* non-ASCII character) makes the string unparsable.
MolFromSmiles(smiles) ==
    IF smiles # <<>> /\ \A i \in 1..Len(smiles) : smiles[i] = "C"
    THEN [valid |-> TRUE, atoms |-> Len(smiles)]
    ELSE [valid |-> FALSE, atoms |-> 0]

\* rdmd.GetMorganFingerprintAsBitVect(mol, radius, nBits): a bit vector of
\* nBits bits, a deterministic function of the molecule.  One bit is set per
\* atom environment of radius 0..radius that the chain has.
GetMorganFingerprintAsBitVect(mol, radius, nBits) ==
    LET reach == IF mol.atoms - 1 < radius THEN mol.atoms - 1 ELSE radius
    IN  [nbits |-> nBits,
         on    |-> {(397 * mol.atoms + 61 * r) % nBits : r \in 0..reach}]

\* np.zeros((n,)): a float64 array of n zeros.  An array is its length and
\* the set of the indices that hold 1.0; every other element is 0.0.
zeros(n) == [size |-> n, ones |-> {}, dtype |-> "float64"]

\* DataStructs.ConvertToNumpyArray(fp, arr): arr is resized to the length of
\* the bit vector and receives its bits.
ConvertToNumpyArray(fp, arr) ==
    [size |-> fp.nbits, ones |-> fp.on, dtype |-> arr.dtype]

\* make_np_array(lst, dtype) = np.array(lst, dtype): the shape is the length
\* of the list followed by the shape of its elements; an empty list has no
\* element to take a second dimension from and gives the 1-D shape (0,).
make_np_array(lst, dtype) ==
    [shape |-> IF lst = <<>> THEN <<0>> ELSE <<Len(lst), lst[1].size>>,
     dtype |-> dtype,
     data  |-> [i \in 1..Len(lst) |-> [size |-> lst[i].size, ones |-> lst[i].ones]]]

\* The value of fp_array before main has materialized it.
NoArray == [shape |-> <<>>, dtype |-> "none", data |-> <<>>]

\* h5f.create_dataset(name, data=array): shape and dtype are the array's.
dataset_of_array(name, arr) ==
    [name |-> name, shape |-> arr.shape, dtype |-> arr.dtype, data |-> arr.data]

\* h5f.create_dataset(name, (len(lst), 1), dt, lst): the list is stored as a
\* column of len(lst) rows of one variable-length byte string each.
dataset_of_list(name, lst) ==
    [name |-> name, shape |-> <<Len(lst), 1>>, dtype |-> "vlen-bytes",
     data |-> [i \in 1..Len(lst) |-> <<lst[i]>>]]

\* A file at the output path: whether it exists and the datasets it holds.
NoFile == [exists |-> FALSE, dsets |-> <<>>]

\* open_w of a mode that keeps what the file holds ('a').
open_keeping(file) == [file EXCEPT !.exists = TRUE]

\* h5py.File(outfile_name, 'w'): the file is created, or truncated if present.
open_w(file) == [exists |-> TRUE, dsets |-> <<>>]

create_dataset(file, ds) == [file EXCEPT !.dsets = Append(file.dsets, ds)]

\* ------------------------------------------------------------------ state

VARIABLES
    infile,      \* the lines of the file at the input path
    outfile,     \* the file at the output path
    prior,       \* the file at the output path when the invocation started
    run,         \* the number of the current invocation
    argc,        \* len(sys.argv) of the current invocation
    pc,          \* the statement the invocation is at
    ifs,         \* the input file object: its state and the lines consumed
    fp_list,     \* generate_fingerprints: the fingerprint arrays
    smiles_list, \* generate_fingerprints: the encoded SMILES
    name_list,   \* generate_fingerprints: the encoded names
    src,         \* for each list, the input line number of each element
    visited,     \* the line numbers the loop body has been entered with
    fp_array,    \* main: the materialized array
    h5f,         \* save_data: the output handle, "none", "open" or "closed"
    outOpens,    \* how often this invocation has opened the output path
    error,       \* the exception that ended the invocation, or "none"
    exitStatus,  \* the exit status, -1 while the invocation runs
    stdout,      \* what the invocation has printed
    firstOut     \* the output of the first completed invocation

vars == <<infile, outfile, prior, run, argc, pc, ifs, fp_list, smiles_list, name_list,
          src, visited, fp_array, h5f, outOpens, error, exitStatus, stdout,
          firstOut>>

\* ------------------------------------------------------------ input space

\* The lines input files are made of.
HeaderLines ==
    { <<"s", " ", "n">>,                  \* "s n": column titles
      <<"C", " ", "h">> }                 \* "C h": a header that is a valid record

DataLines ==
    { <<"C", " ", "a">>,                  \* "C a"
      <<"C", "C", " ", "U+00E9", "b">>,   \* "CC <e-acute>b"
      <<"Q", " ", "c">>,                  \* "Q c": no SMILES
      <<"C">>,                            \* "C": one token
      <<>>,                               \* an empty line
      <<"C", "\t", "t">>,                 \* "C<tab>t"
      <<"C", " ", " ", "d">>,             \* "C  d": two spaces
      <<" ", "C", " ", "e", " ", "z", "\t">> }  \* " C e z<tab>"

RECURSIVE SeqsUpTo(_, _)
SeqsUpTo(S, n) ==
    IF n = 0 THEN {<<>>}
    ELSE LET shorter == SeqsUpTo(S, n - 1)
         IN  shorter \cup {Append(q, x) : q \in shorter, x \in S}

InputFiles ==
    {<<>>} \cup {<<h>> \o d : h \in HeaderLines, d \in SeqsUpTo(DataLines, MaxDataLines)}

\* A file left at the output path by some earlier program.
StaleFile ==
    [exists |-> TRUE,
     dsets  |-> <<dataset_of_list("old_list", << <<"o">> >>)>>]

PriorFiles == {NoFile, StaleFile}

ArgCounts == 1..(ArgvLen + 1)

\* ------------------------------------------------------------------- Init

NoSrc == [fp |-> <<>>, smiles |-> <<>>, name |-> <<>>]
NoOut == [set |-> FALSE, file |-> NoFile, run |-> 0, prior |-> NoFile]

\* The state of a process that has not started yet.
Fresh ==
    /\ pc = "idle"
    /\ argc = 0
    /\ ifs = [state |-> "unopened", pos |-> 0, started |-> FALSE]
    /\ fp_list = <<>>
    /\ smiles_list = <<>>
    /\ name_list = <<>>
    /\ src = NoSrc
    /\ visited = <<>>
    /\ fp_array = NoArray
    /\ h5f = "none"
    /\ outOpens = 0
    /\ error = "none"
    /\ exitStatus = -1
    /\ stdout = <<>>

Init ==
    /\ infile \in InputFiles
    /\ outfile \in PriorFiles
    /\ prior = outfile
    /\ run = 1
    /\ firstOut = NoOut
    /\ Fresh

\* ------------------------------------------------------ generate_fingerprints

\* lst[i] of Python, i counted from 0: IndexError past the end of the list.
getitem(lst, i) ==
    IF i < Len(lst)
    THEN [raised |-> "none", value |-> lst[i + 1]]
    ELSE [raised |-> "IndexError", value |-> <<>>]

\* is_candidate that only asks for a first token.
is_candidate_one_token(toks) == Len(toks) >= 1

\* if len(toks) >= 2
is_candidate(toks) == Len(toks) >= MinToks

\* The three appends of a successfully parsed record.
append_record(acc, lineno, arr, smiles, name) ==
    [acc EXCEPT !.fp_list     = Append(@, arr),
                !.smiles_list = Append(@, encode(smiles)),
                !.name_list   = Append(@, encode(name)),
                !.src         = [fp     |-> Append(@.fp, lineno),
                                 smiles |-> Append(@.smiles, lineno),
                                 name   |-> Append(@.name, lineno)]]

\* loop_body with smiles_list.append moved above the test of mol.
loop_body_append_before_test(line, lineno, acc) ==
    LET toks == split(strip(line), " ")
    IN  IF is_candidate(toks)
        THEN LET smiles == getitem(toks, 0)
                 name   == getitem(toks, 1)
             IN  IF smiles.raised # "none" THEN [acc EXCEPT !.raised = smiles.raised]
                 ELSE IF name.raised # "none" THEN [acc EXCEPT !.raised = name.raised]
                 ELSE LET mol  == MolFromSmiles(smiles.value)
                          acc1 == [acc EXCEPT
                                     !.smiles_list = Append(@, encode(smiles.value)),
                                     !.src.smiles  = Append(@, lineno)]
                      IN  IF mol.valid
                          THEN LET fp  == GetMorganFingerprintAsBitVect(mol, Radius, NBits)
                                   arr == ConvertToNumpyArray(fp, zeros(ZerosLen))
                               IN  [acc1 EXCEPT
                                      !.fp_list   = Append(@, arr),
                                      !.name_list = Append(@, encode(name.value)),
                                      !.src.fp    = Append(@, lineno),
                                      !.src.name  = Append(@, lineno)]
                          ELSE acc1
        ELSE acc

\* The body of the for loop, entered with one line: acc holds the three lists
\* (and where their elements come from) and leaves with the exception the
\* body raised, if any.
loop_body(line, lineno, acc) ==
    LET toks == split(strip(line), " ")
    IN  IF is_candidate(toks)
        THEN LET smiles == getitem(toks, 0)
                 name   == getitem(toks, 1)
             IN  IF smiles.raised # "none" THEN [acc EXCEPT !.raised = smiles.raised]
                 ELSE IF name.raised # "none" THEN [acc EXCEPT !.raised = name.raised]
                 ELSE LET mol == MolFromSmiles(smiles.value)
                      IN  IF mol.valid
                          THEN LET fp  == GetMorganFingerprintAsBitVect(mol, Radius, NBits)
                                   arr == ConvertToNumpyArray(fp, zeros(ZerosLen))
                               IN  append_record(acc, lineno, arr, smiles.value, name.value)
                          ELSE acc
        ELSE acc

\* islice_skip of an iterator that drops no leading line.
islice_skip_nothing(f, lines) == f.pos

\* islice(ifs, 1, None): the lines consumed once the iterator has dropped its
\* leading lines (it drops them on its first step, as far as the file goes).
islice_skip(f, lines) ==
    IF f.started THEN f.pos
    ELSE IF f.pos + IsliceStart > Len(lines) THEN Len(lines) ELSE f.pos + IsliceStart

\* timing: the line the wrapper prints once the wrapped function has returned.
timing(name) == <<name, "Elapsed time">>

Abort(exc) ==
    /\ pc' = "aborted"
    /\ error' = exc
    /\ exitStatus' = 1

\* ---------------------------------------------------------------- actions

\* bad_usage that only rejects too few arguments.
bad_usage_too_few(n) == n < ArgvLen

\* if len(sys.argv) != 3
bad_usage(n) == n # ArgvLen

\* The __main__ block: the usage exit, or the call of main.
Invoke ==
    /\ pc = "idle"
    /\ \E n \in ArgCounts :
        /\ argc' = n
        /\ IF bad_usage(n)
           THEN /\ stdout' = Append(stdout, <<"usage:", "infile.smi outfile.h5">>)
                /\ exitStatus' = 1
                /\ pc' = "exited"
           ELSE /\ pc' = "main"
                /\ UNCHANGED <<stdout, exitStatus>>
    /\ UNCHANGED <<infile, outfile, prior, run, ifs, fp_list, smiles_list, name_list, src,
                   visited, fp_array, h5f, outOpens, error, firstOut>>

\* OpenInput of a main that opens the output file before it reads the input.
OpenInputAfterOutput ==
    /\ pc = "main"
    /\ ifs' = [state |-> "open", pos |-> 0, started |-> FALSE]
    /\ fp_list' = <<>>
    /\ smiles_list' = <<>>
    /\ name_list' = <<>>
    /\ outfile' = open_w(outfile)
    /\ h5f' = "open"
    /\ outOpens' = outOpens + 1
    /\ pc' = "loop"
    /\ UNCHANGED <<infile, prior, run, argc, src, visited, fp_array, error, exitStatus,
                   stdout, firstOut>>

\* main calls generate_fingerprints, which opens the input and empties its lists.
OpenInput ==
    /\ pc = "main"
    /\ \/ /\ ifs' = [state |-> "open", pos |-> 0, started |-> FALSE]
          /\ fp_list' = <<>>
          /\ smiles_list' = <<>>
          /\ name_list' = <<>>
          /\ pc' = "loop"
          /\ UNCHANGED <<error, exitStatus>>
       \/ /\ Abort("FileNotFoundError")
          /\ UNCHANGED <<ifs, fp_list, smiles_list, name_list>>
    /\ UNCHANGED <<infile, outfile, prior, run, argc, src, visited, fp_array, h5f, outOpens,
                   stdout, firstOut>>

\* One step of the for loop: the next line and the body, or the end of the
\* file and the return to main, or a read that fails (the file object raises
\* while it reads and decodes a line, the header included).
LoopStep ==
    /\ pc = "loop"
    /\ LET at == islice_skip(ifs, infile)
       IN  \/ /\ at < Len(infile)
              /\ LET acc == loop_body(infile[at + 1], at + 1,
                                      [fp_list |-> fp_list, smiles_list |-> smiles_list,
                                       name_list |-> name_list, src |-> src,
                                       raised |-> "none"])
                 IN  /\ ifs' = [state |-> "open", pos |-> at + 1, started |-> TRUE]
                     /\ visited' = Append(visited, at + 1)
                     /\ fp_list' = acc.fp_list
                     /\ smiles_list' = acc.smiles_list
                     /\ name_list' = acc.name_list
                     /\ src' = acc.src
                     /\ IF acc.raised # "none"
                        THEN Abort(acc.raised)
                        ELSE UNCHANGED <<pc, error, exitStatus>>
              /\ UNCHANGED stdout
           \/ /\ at >= Len(infile)
              /\ ifs' = [state |-> "exhausted", pos |-> at, started |-> TRUE]
              /\ stdout' = Append(stdout, timing("generate_fingerprints"))
              /\ pc' = "make_np_array"
              /\ UNCHANGED <<visited, fp_list, smiles_list, name_list, src, error,
                             exitStatus>>
           \/ /\ ifs.pos < Len(infile)
              /\ Abort("UnicodeDecodeError")
              /\ UNCHANGED <<ifs, visited, fp_list, smiles_list, name_list, src, stdout>>
    /\ UNCHANGED <<infile, outfile, prior, run, argc, fp_array, h5f, outOpens, firstOut>>

\* fp_array = make_np_array(fp_list)
MakeArray ==
    /\ pc = "make_np_array"
    /\ fp_array' = make_np_array(fp_list, "float32")
    /\ stdout' = Append(stdout, timing("make_np_array"))
    /\ pc' = "save_open"
    /\ UNCHANGED <<infile, outfile, prior, run, argc, ifs, fp_list, smiles_list, name_list,
                   src, visited, h5f, outOpens, error, exitStatus, firstOut>>

\* save_data: h5f = h5py.File(outfile_name, 'w')
SaveOpen ==
    /\ pc = "save_open"
    /\ \/ /\ outfile' = open_w(outfile)
          /\ h5f' = "open"
          /\ outOpens' = outOpens + 1
          /\ pc' = "write_fp"
          /\ UNCHANGED <<error, exitStatus>>
       \/ /\ Abort("OSError")
          /\ UNCHANGED <<outfile, h5f, outOpens>>
    /\ UNCHANGED <<infile, prior, run, argc, ifs, fp_list, smiles_list, name_list, src,
                   visited, fp_array, stdout, firstOut>>

\* One create_dataset call of save_data: the dataset is written and save_data
\* goes on, or the write raises and the exception leaves save_data.
Write(at, ds, next) ==
    /\ pc = at
    /\ \/ /\ outfile' = create_dataset(outfile, ds)
          /\ pc' = next
          /\ UNCHANGED <<error, exitStatus>>
       \/ /\ Abort("OSError")
          /\ UNCHANGED outfile
    /\ UNCHANGED <<infile, prior, run, argc, ifs, fp_list, smiles_list, name_list, src,
                   visited, fp_array, h5f, outOpens, stdout, firstOut>>

WriteFp == Write("write_fp", dataset_of_array("fp_list", fp_array), "write_smiles")

WriteSmiles ==
    Write("write_smiles", dataset_of_list("smiles_list", smiles_list), "write_names")

WriteNames == Write("write_names", dataset_of_list("name_list", name_list), "close")

\* h5f.close(), then the returns of save_data and of main.
Close ==
    /\ pc = "close"
    /\ h5f' = "closed"
    /\ stdout' = stdout \o <<timing("save_data"), timing("main")>>
    /\ exitStatus' = 0
    /\ pc' = "done"
    /\ firstOut' = IF firstOut.set THEN firstOut
                   ELSE [set |-> TRUE, file |-> outfile, run |-> run, prior |-> prior]
    /\ UNCHANGED <<infile, outfile, prior, run, argc, ifs, fp_list, smiles_list, name_list,
                   src, visited, fp_array, outOpens, error>>

Ended == pc \in {"done", "exited", "aborted"}

\* The program is run again on the same paths; in between, the file at the
\* output path may have been removed or replaced.
Reinvoke ==
    /\ Ended
    /\ run < MaxRuns
    /\ run' = run + 1
    /\ outfile' \in PriorFiles \cup {outfile}
    /\ prior' = outfile'
    /\ pc' = "idle"
    /\ argc' = 0
    /\ ifs' = [state |-> "unopened", pos |-> 0, started |-> FALSE]
    /\ fp_list' = <<>>
    /\ smiles_list' = <<>>
    /\ name_list' = <<>>
    /\ src' = NoSrc
    /\ visited' = <<>>
    /\ fp_array' = NoArray
    /\ h5f' = "none"
    /\ outOpens' = 0
    /\ error' = "none"
    /\ exitStatus' = -1
    /\ stdout' = <<>>
    /\ UNCHANGED <<infile, firstOut>>

Next ==
    \/ Invoke
    \/ OpenInput
    \/ LoopStep
    \/ MakeArray
    \/ SaveOpen
    \/ WriteFp
    \/ WriteSmiles
    \/ WriteNames
    \/ Close
    \/ Reinvoke

Spec == Init /\ [][Next]_vars

\* ----------------------------------------------------------------- claims

\* s.split() with no argument: the tokens are the maximal runs of characters
\* that are not whitespace, which is what "whitespace-separated" means.
WsSplit(s) == SelectSeq(SplitFrom(s, Whitespace, <<>>), LAMBDA t : t # <<>>)

\* The number of rows of a dataset: the first entry of its shape.
Rows(ds) == ds.shape[1]

ColumnNames == <<"fp_list", "smiles_list", "name_list">>

\* The names of the datasets of a file, in the order they were written.
Names(file) == [k \in 1..Len(file.dsets) |-> file.dsets[k].name]

\* The lines after the header.
LaterLines == 2..Len(infile)

\* The lists of generate_fingerprints are complete: the loop has ended.
Returned == pc \in {"make_np_array", "save_open", "write_fp", "write_smiles",
                    "write_names", "close", "done"}

\* main has materialized fp_array.
Materialized == pc \in {"save_open", "write_fp", "write_smiles", "write_names",
                        "close", "done"}

\* C1: a completed run has written the three columns with the same number of
\* rows N, the number of lines after the header that have at least two
\* whitespace-separated tokens (tabs and runs of spaces count as separators)
\* and whose first token the parser accepts.
C1_RowCountIsWhitespaceRecordCount ==
    pc = "done" =>
        LET N == Cardinality({i \in LaterLines :
                     /\ Len(WsSplit(infile[i])) >= 2
                     /\ MolFromSmiles(WsSplit(infile[i])[1]).valid})
        IN  /\ Names(outfile) = ColumnNames
            /\ \A k \in 1..3 : Rows(outfile.dsets[k]) = N

\* C3: no execution leaves save_data with the handle it opened still open,
\* whether save_data returns or one of its writes raises.
C3_HandleClosedOnEveryExit ==
    (Ended /\ outOpens > 0) => h5f = "closed"

\* C5: every line the loop has seen that has at least two whitespace-separated
\* tokens (and a first token the parser accepts) is a record whose structure
\* is the first and whose identifier is the second of those tokens, whatever
\* follows them; the identifier is never the empty string between two
\* delimiters, and a tab or several spaces separate the two fields as well.
C5_RecordIsFirstTwoWhitespaceTokens ==
    \A n \in 1..Len(visited) :
        LET ws == WsSplit(infile[visited[n]])
        IN  (Len(ws) >= 2 /\ MolFromSmiles(ws[1]).valid) =>
                \E k \in 1..Len(src.smiles) :
                    /\ src.smiles[k] = visited[n]
                    /\ k <= Len(smiles_list) /\ smiles_list[k] = encode(ws[1])
                    /\ k <= Len(name_list) /\ name_list[k] = encode(ws[2])

\* C6: for every N >= 0 the array written as fp_list has the 2-D shape
\* (N, 1024) and smiles_list and name_list the shape (N, 1); every vector in
\* fp_list has exactly 1024 elements.
C6_ShapesAreNBy1024AndNBy1 ==
    /\ \A k \in 1..Len(fp_list) : fp_list[k].size = NBits
    /\ Materialized => fp_array.shape = <<Len(fp_list), NBits>>
    /\ pc = "done" =>
        /\ Names(outfile) = ColumnNames
        /\ outfile.dsets[1].shape = <<Len(fp_list), NBits>>
        /\ outfile.dsets[2].shape = <<Len(smiles_list), 1>>
        /\ outfile.dsets[3].shape = <<Len(name_list), 1>>

\* The record the loop body makes of a line, judged by the code's own split.
Toks(i) == split(strip(infile[i]), " ")
Parsed(i) == Len(Toks(i)) >= MinToks /\ MolFromSmiles(Toks(i)[1]).valid

Increasing(q) == \A j, k \in 1..Len(q) : j < k => q[j] < q[k]

AccumulatorsAligned ==
    /\ Len(fp_list) = Len(smiles_list)
    /\ Len(smiles_list) = Len(name_list)
    /\ Len(src.fp) = Len(fp_list)
    /\ src.fp = src.smiles
    /\ src.smiles = src.name
    /\ Increasing(src.fp)
    /\ \A k \in 1..Len(src.fp) :
        LET i == src.fp[k]
        IN  /\ Parsed(i)
            /\ smiles_list[k] = encode(Toks(i)[1])
            /\ name_list[k] = encode(Toks(i)[2])
            /\ fp_list[k].ones =
                   GetMorganFingerprintAsBitVect(MolFromSmiles(Toks(i)[1]), Radius, NBits).on

GrowsByOnePerRecord ==
    (pc = "loop" /\ visited' # visited) =>
        LET i == visited'[Len(visited')]
            d == IF Parsed(i) THEN 1 ELSE 0
        IN  /\ Len(fp_list') = Len(fp_list) + d
            /\ Len(smiles_list') = Len(smiles_list) + d
            /\ Len(name_list') = Len(name_list) + d
            /\ SubSeq(smiles_list', 1, Len(smiles_list)) = smiles_list
            /\ SubSeq(name_list', 1, Len(name_list)) = name_list
            /\ SubSeq(fp_list', 1, Len(fp_list)) = fp_list

\* C2: at every point of the loop the three lists have equal length and
\* element k of each comes from the same input line; a loop step adds exactly
\* one element to each list for a parsed record and none for a skipped line,
\* and the rows are in the order of their lines in the file.
C2_AccumulatorsStayAligned ==
    []AccumulatorsAligned /\ [][GrowsByOnePerRecord]_vars

\* The loop has ended after skipping a line and then accepting the last one.
C2_Witness ==
    /\ pc = "make_np_array"
    /\ Len(fp_list) >= 1
    /\ Len(visited) > Len(fp_list)
    /\ src.fp[Len(src.fp)] = visited[Len(visited)]

UsageLine == <<"usage:", "infile.smi outfile.h5">>

UsageExit ==
    pc = "exited" =>
        /\ argc # ArgvLen
        /\ exitStatus = 1
        /\ stdout = <<UsageLine>>
        /\ ifs.state = "unopened"
        /\ outOpens = 0
        /\ h5f = "none"
        /\ outfile = prior

MainOnlyWithTwoArguments ==
    pc \notin {"idle", "exited"} => argc = ArgvLen

\* C4: with any number of arguments other than two the program prints the
\* usage line and exits with status 1, having opened no input and created,
\* truncated or written no output; main runs only with exactly two arguments.
C4_UsageExitHasNoSideEffects ==
    /\ [](UsageExit /\ MainOnlyWithTwoArguments)
    /\ [][(pc = "idle" /\ argc' # ArgvLen) => (pc' = "exited" /\ outfile' = outfile)]_vars

\* The program was given three arguments and has exited.
C4_Witness == pc = "exited" /\ argc = ArgvLen + 1 /\ prior.exists

\* C7: the first line is dropped whatever it holds and every later line
\* enters the loop body exactly once, in order; a file of no line or of a
\* header alone gives no record and no error, and the run writes the three
\* columns with 0 rows.
C7_HeaderDroppedEveryLaterLineOnce ==
    /\ \A n \in 1..Len(visited) : visited[n] = n + 1
    /\ \A k \in 1..Len(src.fp) : src.fp[k] # 1
    /\ Len(visited) <= Cardinality(LaterLines)
    /\ Returned => Len(visited) = Cardinality(LaterLines)
    /\ Len(infile) = 0 => error \notin {"UnicodeDecodeError", "IndexError"}
    /\ Len(infile) <= 1 => error # "IndexError"
    /\ (Len(infile) <= 1 /\ Returned) =>
           fp_list = <<>> /\ smiles_list = <<>> /\ name_list = <<>>
    /\ (Len(infile) <= 1 /\ pc = "done") =>
           /\ outfile.exists
           /\ Names(outfile) = ColumnNames
           /\ \A k \in 1..3 : Rows(outfile.dsets[k]) = 0

\* A completed run on a file whose only line is a valid record.
C7_Witness ==
    /\ pc = "done"
    /\ Len(infile) = 1
    /\ Len(WsSplit(infile[1])) >= 2
    /\ MolFromSmiles(WsSplit(infile[1])[1]).valid

FileLevelErrors == {"FileNotFoundError", "UnicodeDecodeError", "OSError"}

\* An exception ends the run, and only a file-level one ever does.
OnlyFileErrorsEndTheRun ==
    /\ (error # "none") <=> (pc = "aborted")
    /\ pc = "aborted" => (error \in FileLevelErrors /\ exitStatus = 1)
    /\ pc = "done" => exitStatus = 0

\* A loop step that entered the body goes on to the next line.
BodyNeverEndsTheRun ==
    (pc = "loop" /\ visited' # visited) =>
        (pc' = "loop" /\ error' = "none" /\ exitStatus' = -1)

\* A step that raises ends the run there: nothing catches it, and no
\* statement of the program follows.
FileErrorIsFatal ==
    /\ (error = "none" /\ error' # "none") => pc' = "aborted"
    /\ pc = "aborted" => (pc' = "idle" /\ run' = run + 1)

\* C8: a line with fewer than 2 tokens or a rejected structure never ends the
\* run or changes its outcome, the loop goes on with the next line; a failure
\* to open the input, to open the output or to write a column is caught
\* nowhere and ends the run with that error.
C8_RecordFailuresAbsorbedFileFailuresFatal ==
    /\ []OnlyFileErrorsEndTheRun
    /\ [][BodyNeverEndsTheRun /\ FileErrorIsFatal]_vars

\* A run that skipped a line and was then ended by a failing write.
C8_Witness ==
    /\ pc = "aborted"
    /\ error = "OSError"
    /\ h5f = "open"
    /\ Len(visited) > Len(fp_list)

IsPrefix(p, q) == Len(p) <= Len(q) /\ SubSeq(q, 1, Len(p)) = p

PhasesInOrder ==
    /\ outOpens <= 1
    /\ (h5f # "none") <=> (outOpens = 1)
    /\ outOpens = 0 => outfile = prior
    /\ ifs.state = "unopened" =>
           (fp_list = <<>> /\ visited = <<>> /\ fp_array = NoArray)
    /\ fp_array # NoArray =>
           (ifs.state = "exhausted" /\ fp_array = make_np_array(fp_list, "float32"))
    /\ outOpens = 1 => (ifs.state = "exhausted" /\ fp_array # NoArray)
    /\ h5f # "none" => IsPrefix(Names(outfile), ColumnNames)
    /\ h5f = "closed" => Names(outfile) = ColumnNames
    /\ (pc = "aborted" /\ error \in {"FileNotFoundError", "UnicodeDecodeError"}) =>
           (outOpens = 0 /\ outfile = prior)

\* The output path changes only in save_data, after the array is there (or
\* between two runs, by someone else).
OutputTouchedLast ==
    outfile' # outfile =>
        \/ pc' = "idle"
        \/ ifs.state = "exhausted" /\ fp_array # NoArray /\ h5f' = "open"

\* C9: a run opens the input, iterates all lines, materializes the array,
\* opens the output, writes fp_list, smiles_list and name_list in that order
\* and closes the output; the output path is opened at most once and never
\* before the input is exhausted and the array materialized, so a run that
\* fails on the input leaves the output path as it was.
C9_OutputOpenedOnceAfterInputRead ==
    []PhasesInOrder /\ [][OutputTouchedLast]_vars

\* A completed run that read a record and overwrote an existing file.
C9_Witness ==
    /\ pc = "done"
    /\ outOpens = 1
    /\ Len(fp_list) >= 1
    /\ prior.exists

\* C10: two completed runs on the same input write the same datasets,
\* whatever file was at the output path before each of them: the output of a
\* completed run is the output of the first completed run.
C10_RerunWritesTheSameDatasets ==
    (pc = "done" /\ firstOut.set) => outfile = firstOut.file

\* A second completed run whose output path held something else than the
\* first one's did, on an input with a record.
C10_Witness ==
    /\ pc = "done"
    /\ firstOut.set
    /\ firstOut.run < run
    /\ firstOut.prior # prior
    /\ prior # firstOut.file
    /\ Len(fp_list) >= 1

====
